---------------------------- MODULE Spec2Model ----------------------------
(***************************************************************************)
(* Model of porg_deps.py, the dependency resolver of Porg.                 *)
(*                                                                         *)
(* The world is the ports tree (metafiles, in os.walk order), the          *)
(* installed registry file and one resolver process.  A process runs one   *)
(* command: it creates a DepResolver and goes through the stages of        *)
(* compute_upgrade_plan (build_graph_for, detect_cycles, topo_sort,        *)
(* tier_sort, check_rebuild).  build_graph_for is modelled one worklist    *)
(* iteration per step; the other stages are one step each.  SpecCli runs   *)
(* the resolve command again and again, in a new process each time, with   *)
(* metafiles rewritten between two commands.                               *)
(*                                                                         *)
(* Strings whose prefixes matter (package names, registry keys, metafile   *)
(* names) are sequences of tokens; str.startswith is the prefix relation   *)
(* on these sequences.  A Python set is a TLA+ set plus the order in       *)
(* which the process iterates over it, which is chosen nondeterministically*)
(* (hash randomisation); a Python dict is a function plus the sequence of  *)
(* its keys in insertion order.                                            *)
(***************************************************************************)
EXTENDS Naturals, Integers, Sequences, FiniteSets, TLC

VARIABLES
    ports_dir,      \* PORTS_DIR: the metafile names (without extension) in os.walk order
    metafiles,      \* metafile name -> the data load_yaml_file returns for it
    db_file,        \* INSTALLED_DB: the registry file
    pc,             \* position of the resolver process
    target_roots,   \* argument of compute_upgrade_plan
    self,           \* the DepResolver object
    to_process,     \* build_graph_for: the worklist
    topo,           \* compute_upgrade_plan: result of topo_sort
    ordered,        \* compute_upgrade_plan: result of tier_sort
    plan,           \* the plan the last call of compute_upgrade_plan returned
    returned,       \* whether a call of compute_upgrade_plan has returned in this process
    set_order,      \* node -> the order in which this process iterates over graph[node]
    printed,        \* what the last finished resolve command printed (NoOutput: nothing yet)
    stdout,         \* what the command or call in progress has written on standard output
    clock           \* the time (in seconds) of the last line logged

vars == <<ports_dir, metafiles, db_file, pc, target_roots, self, to_process,
          topo, ordered, plan, returned, set_order, printed, stdout, clock>>

-----------------------------------------------------------------------------
(* Bounds of the model *)

\* most dependency and component entries in all metafiles together
MaxEdges == 3
\* most roots given to one command
MaxRoots == 3
\* most entries of the registry file
MaxDb == 1
\* longest worklist of build_graph_for that is followed
MaxQueue == 6

-----------------------------------------------------------------------------
(* Strings *)

Names == {"binutils", "gcc", "gcc-libs"}

\* dependency specifiers as metafiles write them: bare, with a version
\* constraint, with an alternative
Specifiers == {"gcc", "gcc (>= 1.2)", "gcc>=1.2", "gcc | binutils"}

\* the tokens of the strings of the model; "-" and "/" are tokens of their own
Tok(s) ==
    CASE s = "binutils" -> <<"binutils">>
      [] s = "gcc"      -> <<"gcc">>
      [] s = "gcc-libs" -> <<"gcc", "-", "libs">>
      [] s = "gcc (>= 1.2)"   -> <<"gcc", " ", "(", ">=", " ", "1.2", ")">>
      [] s = "gcc>=1.2"       -> <<"gcc", ">=", "1.2">>
      [] s = "gcc | binutils" -> <<"gcc", " ", "|", " ", "binutils">>
      [] s = ""         -> <<>>
      [] OTHER          -> <<s>>

Versions == {"", "1.0", "2.0"}

\* str.startswith on token sequences
StartsWith(s, p) == Len(p) <= Len(s) /\ SubSeq(s, 1, Len(p)) = p

\* list.index: first position of x in s (0 when absent, where Python raises ValueError)
IndexOf(s, x) ==
    IF \E i \in 1..Len(s) : s[i] = x
    THEN CHOOSE i \in 1..Len(s) : s[i] = x /\ \A j \in 1..(i-1) : s[j] # x
    ELSE 0

Range(s) == {s[i] : i \in 1..Len(s)}

IsDistinct(s) == \A i, j \in 1..Len(s) : i # j => s[i] # s[j]

\* all sequences over S of length at most n
AllSeqs(S, n) == UNION {[1..k -> S] : k \in 0..n}

\* sequences over S without repetition, of length at most n
DistinctSeqs(S, n) == {q \in AllSeqs(S, n) : IsDistinct(q)}

\* the orders in which a set may be iterated
Perms(S) == {q \in [1..Cardinality(S) -> S] : Range(q) = S}

\* dict.fromkeys(...) of a list: first occurrences, in order
RECURSIVE Dedup(_)
Dedup(s) ==
    IF s = <<>> THEN <<>>
    ELSE LET init == Dedup(SubSeq(s, 1, Len(s) - 1))
             last == s[Len(s)]
         IN  IF last \in Range(init) THEN init ELSE Append(init, last)

-----------------------------------------------------------------------------
(* Tiers *)

TIER_ORDER ==
    [core |-> 0, system |-> 1, libs |-> 2, gui |-> 3, desktop |-> 4,
     optional |-> 5, unknown |-> 6]

NoTier == "<none>"

\* the tier strings metafiles carry in the model
RawTiers == {"core", "libs", "GUI", "bogus", NoTier}

\* str.lower on the tier strings of the model
Lower(t) == IF t = "GUI" THEN "gui" ELSE t

-----------------------------------------------------------------------------
(* Standard output and logging *)

\* what a process writes on its standard output is a sequence of items: the
\* lines shell_log prints and the JSON values the commands print
LogLine(ts, level, msg) ==
    [kind |-> "log", value |-> [ts |-> ts, level |-> level, msg |-> msg]]

JsonOut(kind, v) == [kind |-> kind, value |-> v]

\* shell_log without a logger script: "<ts> [<level>] <msg>" on the standard
\* output, and on the standard error for the level ERROR
shell_log(out, ts, level, msg) ==
    IF level = "ERROR" THEN out ELSE Append(out, LogLine(ts, level, msg))

\* successive calls of shell_log, the i-th at the time ts[i]
RECURSIVE Logged(_, _, _, _)
Logged(out, ts, level, msgs) ==
    IF msgs = <<>> THEN out
    ELSE Logged(shell_log(out, Head(ts), level, Head(msgs)), Tail(ts), level, Tail(msgs))

\* the times of the model, in seconds: the second in which the first process
\* starts, and the next
Times == {0, 1}

\* the times at which k lines may be logged after the time from: time does
\* not go back
Stamps(from, k) ==
    {q \in [1..k -> {t \in Times : t >= from}] : \A i \in 1..(k - 1) : q[i] <= q[i + 1]}

LastStamp(from, ts) == IF ts = <<>> THEN from ELSE ts[Len(ts)]

\* " -> ".join(c)
RECURSIVE JoinArrow(_)
JoinArrow(c) ==
    IF c = <<>> THEN <<>>
    ELSE IF Len(c) = 1 THEN c
    ELSE <<Head(c), " -> ">> \o JoinArrow(Tail(c))

\* the messages of the warnings
CycleMsg(c) == <<"Dependency cycle detected: ">> \o JoinArrow(c)
DbMsg == <<"Failed to read installed DB ", "INSTALLED_DB", ", treating as empty">>

-----------------------------------------------------------------------------
(* Installed registry *)

\* the registry file: readable JSON with its records in file order, a file
\* whose reading raises an exception, or no file at the path of INSTALLED_DB
DbFile(entries) == [isfile |-> TRUE, readable |-> TRUE, entries |-> entries]
Unreadable == [isfile |-> TRUE, readable |-> FALSE, entries |-> <<>>]
Absent == [isfile |-> FALSE, readable |-> FALSE, entries |-> <<>>]
NoName == "<none>"

\* a registry record: its key in the JSON object, its "name" and "version" fields
\* (NoName: no "name" field; a missing "version" field reads as "")
DbEntry(key, name, version) == [key |-> key, name |-> name, version |-> version]

\* the record register-installed writes for name:version
RegisteredEntry(name, version) ==
    DbEntry(Tok(name) \o <<"-">> \o Tok(version), name, version)

read_installed_db == IF db_file.readable THEN db_file.entries ELSE <<>>

\* the test of is_installed and installed_version on one record
DbMatch(e, pkgname) ==
    \/ e.key = Tok(pkgname)
    \/ StartsWith(e.key, Tok(pkgname) \o <<"-">>)
    \/ e.name = pkgname

is_installed(pkgname, installed_db) ==
    \E i \in 1..Len(installed_db) : DbMatch(installed_db[i], pkgname)

installed_version(pkgname, installed_db) ==
    LET hits == {i \in 1..Len(installed_db) : DbMatch(installed_db[i], pkgname)}
    IN  IF hits = {} THEN ""
        ELSE installed_db[CHOOSE i \in hits : \A j \in hits : i <= j].version

-----------------------------------------------------------------------------
(* Metafiles *)

NoFile == ""

\* the data of a metafile: version, the dependency entries of all its lists
\* concatenated, the group flag, the components and the tier string
RawMeta(version, deps, group, components, tier) ==
    [version |-> version, deps |-> deps, group |-> group,
     components |-> components, tier |-> tier]

\* find_metafile returning the first metafile of the tree when none matches
find_metafile_first(pkg) ==
    LET hits == {i \in 1..Len(ports_dir) : StartsWith(Tok(ports_dir[i]), Tok(pkg))}
    IN  IF ports_dir = <<>> THEN NoFile
        ELSE IF hits = {} THEN ports_dir[1]
        ELSE ports_dir[CHOOSE i \in hits : \A j \in hits : i <= j]

find_metafile(pkg) ==
    LET hits == {i \in 1..Len(ports_dir) : StartsWith(Tok(ports_dir[i]), Tok(pkg))}
    IN  IF hits = {} THEN NoFile
        ELSE ports_dir[CHOOSE i \in hits : \A j \in hits : i <= j]

parse_metafile(path) ==
    LET data == metafiles[path]
        tier == IF data.tier = NoTier THEN "unknown" ELSE data.tier
    IN  [version      |-> data.version,
         dependencies |-> Dedup(SelectSeq(data.deps, LAMBDA d : d # "")),
         is_group     |-> (data.group \/ data.components # <<>>),
         components   |-> IF data.group \/ data.components # <<>>
                          THEN data.components ELSE <<>>,
         tier         |-> IF tier \in DOMAIN TIER_ORDER THEN tier
                          ELSE IF Lower(tier) \in DOMAIN TIER_ORDER THEN Lower(tier)
                          ELSE "unknown"]

\* the record get_pkg_meta returns when there is no metafile
NoMeta ==
    [version |-> "", dependencies |-> <<>>, is_group |-> FALSE,
     components |-> <<>>, tier |-> "unknown"]

\* _PARSED_METAFILES keeps the parsed record of a path for the life of the
\* process; the metafiles do not change while a process runs, so a record read
\* again is the record kept
get_pkg_meta(pkg) ==
    LET mf == find_metafile(pkg)
    IN  IF mf = NoFile THEN NoMeta ELSE parse_metafile(mf)

expand_group(pkg) ==
    LET meta == get_pkg_meta(pkg)
    IN  IF meta.is_group THEN meta.components ELSE <<pkg>>

-----------------------------------------------------------------------------
(* DepResolver: the graph *)

\* dict assignment d[k] = v
DictPut(d, k, v) == [x \in DOMAIN d \cup {k} |-> IF x = k THEN v ELSE d[x]]

EmptyDict == [x \in {} |-> {}]

\* DepResolver.__init__
NewResolver ==
    [installed_db        |-> read_installed_db,
     graph               |-> EmptyDict,
     graph_keys          |-> <<>>,
     meta                |-> EmptyDict,
     visiting            |-> {},
     visited             |-> {},
     cycles              |-> <<>>,
     needs_rebuild_cache |-> EmptyDict,
     cache_keys          |-> <<>>]

add_node(r, pkg) ==
    IF pkg \in DOMAIN r.graph THEN r
    ELSE [r EXCEPT !.graph = DictPut(@, pkg, {}),
                   !.graph_keys = Append(@, pkg),
                   !.meta = DictPut(@, pkg, get_pkg_meta(pkg))]

\* add_edge without the add_node of the dependency
add_edge_no_dep_node(r, pkg, dep) ==
    LET r2 == add_node(r, pkg)
    IN  [r2 EXCEPT !.graph[pkg] = @ \cup {dep}]

add_edge(r, pkg, dep) ==
    LET r2 == add_node(add_node(r, pkg), dep)
    IN  [r2 EXCEPT !.graph[pkg] = @ \cup {dep}]

\* build_graph_for, lines 303-306: the loop over the dependencies of comp;
\* st is the resolver and the worklist
RECURSIVE build_deps(_, _, _)

\* the loop over the dependencies leaving out the installed ones
build_deps_skip_installed(st, comp, deps) ==
    IF deps = <<>> THEN st
    ELSE LET d  == Head(deps)
             r2 == IF is_installed(d, st.r.installed_db) THEN st.r
                   ELSE add_edge(st.r, comp, d)
         IN  build_deps([r |-> r2, tp |-> st.tp], comp, Tail(deps))

build_deps(st, comp, deps) ==
    IF deps = <<>> THEN st
    ELSE LET d  == Head(deps)
             r2 == add_edge(st.r, comp, d)
             tp == IF d \notin DOMAIN r2.graph THEN Append(st.tp, d) ELSE st.tp
         IN  build_deps([r |-> r2, tp |-> tp], comp, Tail(deps))

\* build_graph_for, lines 308-311: the components of a group are queued
RECURSIVE build_components(_, _)
build_components(st, cs) ==
    IF cs = <<>> THEN st
    ELSE LET c  == Head(cs)
             tp == IF c \notin DOMAIN st.r.graph THEN Append(st.tp, c) ELSE st.tp
         IN  build_components([st EXCEPT !.tp = tp], Tail(cs))

\* build_graph_for, lines 296-311: the loop over the components of cur
RECURSIVE build_comps(_, _)
build_comps(st, comps) ==
    IF comps = <<>> THEN st
    ELSE LET comp == Head(comps)
             st1  == [st EXCEPT !.r = IF comp \notin DOMAIN st.r.graph
                                      THEN add_node(st.r, comp) ELSE st.r]
             pm   == get_pkg_meta(comp)
             st2  == build_deps(st1, comp, pm.dependencies)
             st3  == IF pm.is_group THEN build_components(st2, pm.components) ELSE st2
         IN  build_comps(st3, Tail(comps))

\* build_graph_for, lines 293-311: one iteration of the while loop
build_graph_step(r, worklist) ==
    LET cur == Head(worklist)
    IN  build_comps([r |-> r, tp |-> Tail(worklist)], expand_group(cur))

\* build_graph_for, lines 291-311: the while loop, run until the worklist is empty
RECURSIVE build_graph_for(_, _)
build_graph_for(r, worklist) ==
    IF worklist = <<>> THEN r
    ELSE LET st == build_graph_step(r, worklist)
         IN  build_graph_for(st.r, st.tp)

-----------------------------------------------------------------------------
(* DepResolver: cycle detection *)

\* iteration over self.graph.get(node, []) in the order ord gives to that set
DepsOf(r, ord, node) == IF node \in DOMAIN r.graph THEN ord[node] ELSE <<>>

RECURSIVE dfs_cycle(_, _, _, _)
RECURSIVE dfs_cycle_deps(_, _, _, _)

\* _dfs_cycle reporting the path slice without closing it
dfs_cycle_open(r, ord, node, stack) ==
    IF node \in r.visiting
    THEN [r EXCEPT !.cycles = Append(@, SubSeq(stack, IndexOf(stack, node), Len(stack)))]
    ELSE IF node \in r.visited THEN r
    ELSE LET r1 == [r EXCEPT !.visiting = @ \cup {node}]
             r2 == dfs_cycle_deps(r1, ord, DepsOf(r1, ord, node), Append(stack, node))
         IN  [r2 EXCEPT !.visiting = @ \ {node}, !.visited = @ \cup {node}]

\* _dfs_cycle reporting the whole path stack instead of the slice that starts
\* at the node reached again
dfs_cycle_whole_stack(r, ord, node, stack) ==
    IF node \in r.visiting
    THEN [r EXCEPT !.cycles = Append(@, stack \o <<node>>)]
    ELSE IF node \in r.visited THEN r
    ELSE LET r1 == [r EXCEPT !.visiting = @ \cup {node}]
             r2 == dfs_cycle_deps(r1, ord, DepsOf(r1, ord, node), Append(stack, node))
         IN  [r2 EXCEPT !.visiting = @ \ {node}, !.visited = @ \cup {node}]

\* _dfs_cycle; r carries visiting, visited and cycles
dfs_cycle(r, ord, node, stack) ==
    IF node \in r.visiting
    THEN IF IndexOf(stack, node) # 0
         THEN [r EXCEPT !.cycles =
                  Append(@, SubSeq(stack, IndexOf(stack, node), Len(stack)) \o <<node>>)]
         ELSE [r EXCEPT !.cycles = Append(@, stack \o <<node>>)]
    ELSE IF node \in r.visited THEN r
    ELSE LET r1 == [r EXCEPT !.visiting = @ \cup {node}]
             r2 == dfs_cycle_deps(r1, ord, DepsOf(r1, ord, node), Append(stack, node))
         IN  [r2 EXCEPT !.visiting = @ \ {node}, !.visited = @ \cup {node}]

\* the loop over the dependencies left after the first dependency
dfs_cycle_deps_first(r, ord, deps, stack) ==
    IF deps = <<>> THEN r ELSE dfs_cycle(r, ord, Head(deps), stack)

\* _dfs_cycle, lines 327-328: the loop over the dependencies
dfs_cycle_deps(r, ord, deps, stack) ==
    IF deps = <<>> THEN r
    ELSE dfs_cycle_deps(dfs_cycle(r, ord, Head(deps), stack), ord, Tail(deps), stack)

\* detect_cycles, lines 335-337: the loop over the nodes
RECURSIVE detect_cycles_from(_, _, _)
detect_cycles_from(r, ord, keys) ==
    IF keys = <<>> THEN r
    ELSE LET n  == Head(keys)
             r1 == IF n \notin r.visited THEN dfs_cycle(r, ord, n, <<>>) ELSE r
         IN  detect_cycles_from(r1, ord, Tail(keys))

\* detect_cycles starting the search from the first node only
detect_cycles_first_node(r, ord) ==
    detect_cycles_from([r EXCEPT !.visiting = {}, !.visited = {}, !.cycles = <<>>],
                       ord, IF r.graph_keys = <<>> THEN <<>> ELSE <<Head(r.graph_keys)>>)

detect_cycles(r, ord) ==
    detect_cycles_from([r EXCEPT !.visiting = {}, !.visited = {}, !.cycles = <<>>],
                       ord, r.graph_keys)

-----------------------------------------------------------------------------
(* DepResolver: topological sort *)

\* topo_sort, lines 345-348: for every node the number of nodes that list it
indegrees(r) ==
    [d \in DOMAIN r.graph |-> Cardinality({n \in DOMAIN r.graph : d \in r.graph[n]})]

\* topo_sort, lines 354-357: st is indeg and the queue
RECURSIVE topo_visit(_, _)
topo_visit(st, ms) ==
    IF ms = <<>> THEN st
    ELSE LET m   == Head(ms)
             deg == st.indeg[m] - 1
         IN  topo_visit([indeg |-> [st.indeg EXCEPT ![m] = deg],
                         q     |-> IF deg = 0 THEN Append(st.q, m) ELSE st.q],
                        Tail(ms))

\* topo_sort, lines 351-357: the loop on the queue
RECURSIVE topo_loop(_, _, _, _)
topo_loop(r, ord, st, order) ==
    IF st.q = <<>> THEN order
    ELSE LET n == Head(st.q)
         IN  topo_loop(r, ord,
                       topo_visit([st EXCEPT !.q = Tail(@)], DepsOf(r, ord, n)),
                       Append(order, n))

\* topo_sort without the fallback of lines 358-361
topo_sort_no_fallback(r, ord) ==
    LET indeg == indegrees(r)
        q     == SelectSeq(r.graph_keys, LAMBDA n : indeg[n] = 0)
    IN  topo_loop(r, ord, [indeg |-> indeg, q |-> q], <<>>)

topo_sort(r, ord) ==
    LET indeg == indegrees(r)
        q     == SelectSeq(r.graph_keys, LAMBDA n : indeg[n] = 0)
        order == topo_loop(r, ord, [indeg |-> indeg, q |-> q], <<>>)
    IN  IF Len(order) # Cardinality(DOMAIN r.graph)
        THEN order \o SelectSeq(r.graph_keys, LAMBDA n : n \notin Range(order))
        ELSE order

-----------------------------------------------------------------------------
(* DepResolver: tier sort *)

tier_val(r, n) ==
    LET t == IF n \in DOMAIN r.meta THEN r.meta[n].tier ELSE "unknown"
    IN  IF t \in DOMAIN TIER_ORDER THEN TIER_ORDER[t] ELSE TIER_ORDER["unknown"]

\* comparison of the tuples used as sort keys
KeyLeq(a, b) == a[1] < b[1] \/ (a[1] = b[1] /\ a[2] <= b[2])

\* sorted(s, key=...): stable, elements with equal keys keep their order;
\* key maps every element to its sort key
RECURSIVE SortedBy(_, _)
SortedBy(s, key) ==
    IF s = <<>> THEN <<>>
    ELSE LET init == SortedBy(SubSeq(s, 1, Len(s) - 1), key)
             x    == s[Len(s)]
             k    == Cardinality({i \in 1..Len(init) : KeyLeq(key[init[i]], key[x])})
         IN  SubSeq(init, 1, k) \o <<x>> \o SubSeq(init, k + 1, Len(init))

tier_sort_reversed_ties(r, nodes) ==
    SortedBy(nodes, [x \in Range(nodes) |->
                        <<tier_val(r, x), Len(nodes) - IndexOf(nodes, x)>>])

tier_sort(r, nodes) ==
    SortedBy(nodes, [x \in Range(nodes) |-> <<tier_val(r, x), IndexOf(nodes, x)>>])

-----------------------------------------------------------------------------
(* DepResolver: rebuild analysis *)

\* self.needs_rebuild_cache[pkg] = val
cache_put(r, pkg, val) ==
    [r EXCEPT !.needs_rebuild_cache = DictPut(@, pkg, val),
              !.cache_keys = IF pkg \in DOMAIN r.needs_rebuild_cache
                             THEN @ ELSE Append(@, pkg)]

RECURSIVE check_rebuild(_, _, _, _)
RECURSIVE check_rebuild_deps(_, _, _, _)

\* check_rebuild taking a package for not installed only when its metafile
\* declares a version
check_rebuild_declared(r, ord, pkg, visited_local) ==
    IF pkg \in DOMAIN r.needs_rebuild_cache
    THEN [val |-> r.needs_rebuild_cache[pkg], r |-> r]
    ELSE IF pkg \in visited_local
    THEN [val |-> TRUE, r |-> cache_put(r, pkg, TRUE)]
    ELSE LET meta          == IF pkg \in DOMAIN r.meta THEN r.meta[pkg]
                              ELSE get_pkg_meta(pkg)
             installed_ver == installed_version(pkg, r.installed_db)
             src_ver       == meta.version
         IN  IF src_ver # "" /\ installed_ver = ""
             THEN [val |-> TRUE, r |-> cache_put(r, pkg, TRUE)]
             ELSE IF src_ver # "" /\ src_ver # installed_ver
             THEN [val |-> TRUE, r |-> cache_put(r, pkg, TRUE)]
             ELSE LET res == check_rebuild_deps(r, ord, DepsOf(r, ord, pkg),
                                                visited_local \cup {pkg})
                  IN  [val |-> res.val, r |-> cache_put(res.r, pkg, res.val)]

\* check_rebuild answering "no rebuild" for a package met again on the
\* recursion path
check_rebuild_skip_cycle(r, ord, pkg, visited_local) ==
    IF pkg \in DOMAIN r.needs_rebuild_cache
    THEN [val |-> r.needs_rebuild_cache[pkg], r |-> r]
    ELSE IF pkg \in visited_local
    THEN [val |-> FALSE, r |-> r]
    ELSE LET meta          == IF pkg \in DOMAIN r.meta THEN r.meta[pkg]
                              ELSE get_pkg_meta(pkg)
             installed_ver == installed_version(pkg, r.installed_db)
             src_ver       == meta.version
         IN  IF installed_ver = ""
             THEN [val |-> TRUE, r |-> cache_put(r, pkg, TRUE)]
             ELSE IF src_ver # "" /\ src_ver # installed_ver
             THEN [val |-> TRUE, r |-> cache_put(r, pkg, TRUE)]
             ELSE LET res == check_rebuild_deps(r, ord, DepsOf(r, ord, pkg),
                                                visited_local \cup {pkg})
                  IN  [val |-> res.val, r |-> cache_put(res.r, pkg, res.val)]

\* compute_upgrade_plan.check_rebuild; the result is the returned value and the
\* resolver with its cache
check_rebuild(r, ord, pkg, visited_local) ==
    IF pkg \in DOMAIN r.needs_rebuild_cache
    THEN [val |-> r.needs_rebuild_cache[pkg], r |-> r]
    ELSE IF pkg \in visited_local
    THEN [val |-> TRUE, r |-> cache_put(r, pkg, TRUE)]
    ELSE LET meta          == IF pkg \in DOMAIN r.meta THEN r.meta[pkg]
                              ELSE get_pkg_meta(pkg)
             installed_ver == installed_version(pkg, r.installed_db)
             src_ver       == meta.version
         IN  IF installed_ver = ""
             THEN [val |-> TRUE, r |-> cache_put(r, pkg, TRUE)]
             ELSE IF src_ver # "" /\ src_ver # installed_ver
             THEN [val |-> TRUE, r |-> cache_put(r, pkg, TRUE)]
             ELSE LET res == check_rebuild_deps(r, ord, DepsOf(r, ord, pkg),
                                                visited_local \cup {pkg})
                  IN  [val |-> res.val, r |-> cache_put(res.r, pkg, res.val)]

\* check_rebuild, lines 423-427: the loop over the dependencies stops at the
\* first one that needs a rebuild
check_rebuild_deps(r, ord, deps, visited_local) ==
    IF deps = <<>> THEN [val |-> FALSE, r |-> r]
    ELSE LET res == check_rebuild(r, ord, Head(deps), visited_local)
         IN  IF res.val THEN res
             ELSE check_rebuild_deps(res.r, ord, Tail(deps), visited_local)

\* compute_upgrade_plan, lines 432-433
RECURSIVE check_rebuild_all(_, _, _)
check_rebuild_all(r, ord, nodes) ==
    IF nodes = <<>> THEN r
    ELSE check_rebuild_all(check_rebuild(r, ord, Head(nodes), {}).r, ord, Tail(nodes))

\* the returned plan listing the roots of the call only
make_plan_roots_only(r, order) ==
    LET mine == SelectSeq(order, LAMBDA n : n \in Range(target_roots))
    IN  [order         |-> mine,
         tiers         |-> [n \in Range(mine) |->
                               IF n \in DOMAIN r.meta THEN r.meta[n].tier ELSE "unknown"],
         needs_rebuild |-> SelectSeq(r.cache_keys, LAMBDA p : r.needs_rebuild_cache[p]),
         cycles        |-> r.cycles]

\* compute_upgrade_plan, lines 435-447: the returned plan
make_plan(r, order) ==
    [order         |-> order,
     tiers         |-> [n \in Range(order) |->
                           IF n \in DOMAIN r.meta THEN r.meta[n].tier ELSE "unknown"],
     needs_rebuild |-> SelectSeq(r.cache_keys, LAMBDA p : r.needs_rebuild_cache[p]),
     cycles        |-> r.cycles]

\* compute_upgrade_plan(roots) of a resolver constructed over the registry
\* installed_db, with the sets iterated in the order ord; the result is the
\* resolver and the returned plan
compute_upgrade_plan(installed_db, roots, ord) ==
    LET r0    == [NewResolver EXCEPT !.installed_db = installed_db]
        r1    == detect_cycles(build_graph_for(r0, roots), ord)
        order == tier_sort(r1, topo_sort(r1, ord))
        r2    == check_rebuild_all(r1, ord, order)
    IN  [r |-> r2, plan |-> make_plan(r2, order)]

-----------------------------------------------------------------------------
(* The inputs explored *)

\* the dependency, group and component entries of one metafile
MetaShape(deps, group, components) ==
    [deps |-> deps, group |-> group, components |-> components]

ShapeSize(s) == Len(s.deps) + Len(s.components)

\* the raw dependency lists with at most n entries: without repetition, or one
\* dependency named twice (in the build list and in the runtime list)
DepLists(n) ==
    DistinctSeqs(Names, n) \cup (IF n >= 2 THEN {<<d, d>> : d \in Names} ELSE {})

\* the shapes with at most budget entries; a metafile with components is a
\* group whatever its group flag says, so the flag varies only without them
Shapes(budget) ==
    UNION {{MetaShape(d, FALSE, c) : c \in DistinctSeqs(Names, budget - Len(d))} :
           d \in DepLists(budget)}
      \cup {MetaShape(d, TRUE, <<>>) : d \in DepLists(budget)}

ShapesUpTo == [b \in 0..(MaxEdges + 1) |-> Shapes(b)]

\* the assignments of one shape to every name, with at most budget entries together
ShapeWorlds(budget) ==
    UNION {UNION {{[binutils |-> s1, gcc |-> s2, gcc_libs |-> s3] :
                      s3 \in ShapesUpTo[budget - ShapeSize(s1) - ShapeSize(s2)]} :
                  s2 \in ShapesUpTo[budget - ShapeSize(s1)]} :
           s1 \in ShapesUpTo[budget]}

\* the shapes without group flag and components, with at most budget entries
DepShapes == [b \in 0..(MaxEdges + 1) |-> {MetaShape(d, FALSE, <<>>) : d \in DepLists(b)}]

\* the worlds without groups, with at most budget dependency entries together
DepWorlds(budget) ==
    UNION {UNION {{[binutils |-> s1, gcc |-> s2, gcc_libs |-> s3] :
                      s3 \in DepShapes[budget - ShapeSize(s1) - ShapeSize(s2)]} :
                  s2 \in DepShapes[budget - ShapeSize(s1)]} :
           s1 \in DepShapes[budget]}

\* the shape a world gives to a name
ShapeOf(w, n) ==
    CASE n = "binutils" -> w.binutils
      [] n = "gcc"      -> w.gcc
      [] n = "gcc-libs" -> w.gcc_libs

HasNoGroup(w) ==
    \A n \in Names : ~ShapeOf(w, n).group /\ ShapeOf(w, n).components = <<>>

AllPorts == <<"binutils", "gcc", "gcc-libs">>

\* the orders in which os.walk may list the metafiles: gcc.yaml before
\* gcc-libs.yaml, or after it
PortsOrders == {AllPorts, <<"binutils", "gcc-libs", "gcc">>}

Roots == DistinctSeqs(Names, MaxRoots) \ {<<>>}

\* the registry files: records as register-installed writes them
DbFiles ==
    {DbFile(q) :
        q \in DistinctSeqs({RegisteredEntry(n, v) : n \in Names, v \in {"", "1.0"}}, MaxDb)}

NoPlan == [order |-> <<>>, tiers |-> EmptyDict, needs_rebuild |-> <<>>, cycles |-> <<>>]

NoOutput == <<>>

\* the state of a process that has not started, at time 0
Idle ==
    /\ pc = "start"
    /\ self = NewResolver
    /\ to_process = <<>>
    /\ topo = <<>>
    /\ ordered = <<>>
    /\ plan = NoPlan
    /\ returned = FALSE
    /\ set_order = EmptyDict
    /\ printed = NoOutput
    /\ stdout = <<>>
    /\ clock = 0

\* the tiers of the worlds in which the graph varies: binutils is declared core,
\* the other two declare no tier
GraphTier(n) == IF n = "binutils" THEN "core" ELSE NoTier

\* Every metafile exists, every package is at version 1.0 and none is
\* installed; the dependencies, groups, components and roots vary.
Init ==
    /\ ports_dir = AllPorts
    /\ \E w \in ShapeWorlds(MaxEdges) :
          metafiles = [n \in Names |->
                          RawMeta("1.0", ShapeOf(w, n).deps, ShapeOf(w, n).group,
                                  ShapeOf(w, n).components, GraphTier(n))]
    /\ db_file = DbFile(<<>>)
    /\ target_roots \in Roots
    /\ Idle

\* The declared versions and the registry vary, over the graphs without groups
\* of at most MaxEdges - 1 dependency entries; every package is a root.
InitRebuild ==
    /\ ports_dir = AllPorts
    /\ target_roots = <<"gcc", "gcc-libs", "binutils">>
    /\ \E w \in DepWorlds(MaxEdges - 1), ver \in [Names -> Versions] :
          metafiles = [n \in Names |->
                          RawMeta(ver[n], ShapeOf(w, n).deps, FALSE, <<>>, NoTier)]
    /\ db_file \in DbFiles \cup {Unreadable, Absent}
    /\ Idle

\* The tier strings and the order of the metafiles vary, over the graphs
\* without groups of at most MaxEdges - 2 dependency entries; every package is
\* a root.
InitTiers ==
    /\ ports_dir \in PortsOrders
    /\ target_roots \in {q \in Roots : Len(q) = Cardinality(Names)}
    /\ \E w \in ShapeWorlds(MaxEdges - 2), tier \in [Names -> RawTiers] :
          /\ HasNoGroup(w)
          /\ metafiles = [n \in Names |->
                             RawMeta("1.0", ShapeOf(w, n).deps, FALSE, <<>>, tier[n])]
    /\ db_file = DbFile(<<>>)
    /\ Idle

\* the ports trees in which the metafile of at least one package is missing
PartialPorts == DistinctSeqs(Names, Cardinality(Names) - 1)

\* Metafiles are missing: the ports tree holds at most two of the three
\* metafiles, over the graphs without groups of at most MaxEdges - 1
\* dependency entries.
InitMissing ==
    /\ ports_dir \in PartialPorts
    /\ \E w \in DepWorlds(MaxEdges - 1) :
          metafiles = [n \in Names |->
                          RawMeta("1.0", ShapeOf(w, n).deps, FALSE, <<>>, GraphTier(n))]
    /\ db_file = DbFile(<<>>)
    /\ target_roots \in Roots
    /\ Idle

\* Graphs of up to MaxEdges + 1 edges: every package is a root (in any
\* order), no metafile is a group.
InitCycles ==
    /\ ports_dir = AllPorts
    /\ target_roots \in {q \in Roots : Len(q) = Cardinality(Names)}
    /\ \E w \in DepWorlds(MaxEdges + 1) :
          metafiles = [n \in Names |->
                          RawMeta("1.0", ShapeOf(w, n).deps, FALSE, <<>>, GraphTier(n))]
    /\ db_file = DbFile(<<>>)
    /\ Idle

\* The registry varies (readable, unreadable or absent) over the graphs without groups of at
\* most MaxEdges - 1 dependency entries; a metafile declares version 1.0 or
\* none; every package is a root.
InitRegistry ==
    /\ ports_dir = AllPorts
    /\ target_roots = <<"gcc", "gcc-libs", "binutils">>
    /\ \E w \in DepWorlds(MaxEdges - 1), ver \in [Names -> {"", "1.0"}] :
          metafiles = [n \in Names |->
                          RawMeta(ver[n], ShapeOf(w, n).deps, FALSE, <<>>, NoTier)]
    /\ db_file \in DbFiles \cup {Unreadable, Absent}
    /\ Idle

\* the registries in which every package is registered at version 1.0
InstalledDbs ==
    {DbFile([i \in 1..Len(o) |-> RegisteredEntry(o[i], "1.0")]) : o \in PortsOrders}

\* Graphs of up to MaxEdges + 1 edges in which every package is installed at
\* the version its metafile declares: every package is a root (in any order),
\* no metafile is a group.
InitInstalled ==
    /\ ports_dir = AllPorts
    /\ target_roots \in {q \in Roots : Len(q) = Cardinality(Names)}
    /\ \E w \in DepWorlds(MaxEdges + 1) :
          metafiles = [n \in Names |->
                          RawMeta("1.0", ShapeOf(w, n).deps, FALSE, <<>>, GraphTier(n))]
    /\ db_file \in InstalledDbs
    /\ Idle

\* The dependency entries are specifiers: every metafile lists at most one,
\* one package is the root.
InitNorm ==
    /\ ports_dir = AllPorts
    /\ \E deps \in [Names -> DistinctSeqs(Specifiers, 1)] :
          metafiles = [n \in Names |-> RawMeta("1.0", deps[n], FALSE, <<>>, NoTier)]
    /\ db_file = DbFile(<<>>)
    /\ target_roots \in {q \in Roots : Len(q) = 1}
    /\ Idle

-----------------------------------------------------------------------------
(* The resolver process *)

\* the orders in which the sets of the graph may be iterated
SetOrders(graph) ==
    {ord \in [DOMAIN graph -> UNION {Perms(graph[n]) : n \in DOMAIN graph}] :
        \A n \in DOMAIN graph : Range(ord[n]) = graph[n] /\ Len(ord[n]) = Cardinality(graph[n])}

\* shell_log("WARN", m) for every message m of msgs, in their order
Warn(msgs) ==
    \E ts \in Stamps(clock, Len(msgs)) :
        /\ stdout' = Logged(stdout, ts, "WARN", msgs)
        /\ clock' = LastStamp(clock, ts)

\* the warnings of n calls of read_installed_db: one for each reading that
\* fails; a path that is no file is not read
DbWarnings(n) ==
    IF db_file.isfile /\ ~db_file.readable THEN [i \in 1..n |-> DbMsg] ELSE <<>>

\* DepResolver() and the call of compute_upgrade_plan up to the first
\* iteration of build_graph_for
Start ==
    /\ pc = "start"
    /\ self' = NewResolver
    /\ Warn(DbWarnings(1))
    /\ to_process' = target_roots
    /\ pc' = "build"
    /\ UNCHANGED <<ports_dir, metafiles, db_file, target_roots, topo, ordered, plan,
                   set_order, printed, returned>>

\* one iteration of the while loop of build_graph_for
BuildStep ==
    /\ pc = "build"
    /\ to_process # <<>>
    /\ LET st == build_graph_step(self, to_process)
       IN  /\ Len(st.tp) <= MaxQueue
           /\ self' = st.r
           /\ to_process' = st.tp
    /\ UNCHANGED <<ports_dir, metafiles, db_file, pc, target_roots, topo, ordered, plan,
                   set_order, printed,
                   stdout, clock, returned>>

\* build_graph_for returns; detect_cycles, and a warning for every cycle.
\* detect_cycles clears and fills the list self.cycles and returns that list:
\* a plan returned by an earlier call holds the same list under "cycles".
DetectCycles ==
    /\ pc = "build"
    /\ to_process = <<>>
    /\ \E ord \in SetOrders(self.graph) :
          LET r == detect_cycles(self, ord)
          IN  /\ set_order' = ord
              /\ self' = r
              /\ plan' = IF returned THEN [plan EXCEPT !.cycles = r.cycles] ELSE plan
              /\ Warn([i \in 1..Len(r.cycles) |-> CycleMsg(r.cycles[i])])
    /\ pc' = "topo"
    /\ UNCHANGED <<ports_dir, metafiles, db_file, target_roots, to_process, topo, ordered,
                   printed, returned>>

TopoSort ==
    /\ pc = "topo"
    /\ topo' = topo_sort(self, set_order)
    /\ pc' = "tier"
    /\ UNCHANGED <<ports_dir, metafiles, db_file, target_roots, self, to_process, ordered,
                   plan, set_order, printed,
                   stdout, clock, returned>>

TierSort ==
    /\ pc = "tier"
    /\ ordered' = tier_sort(self, topo)
    /\ pc' = "rebuild"
    /\ UNCHANGED <<ports_dir, metafiles, db_file, target_roots, self, to_process, topo,
                   plan, set_order, printed,
                   stdout, clock, returned>>

\* the rebuild analysis and the returned plan
CheckRebuild ==
    /\ pc = "rebuild"
    /\ LET r == check_rebuild_all(self, set_order, ordered)
       IN  /\ self' = r
           /\ plan' = make_plan(r, ordered)
           /\ returned' = TRUE
    /\ pc' = "done"
    /\ UNCHANGED <<ports_dir, metafiles, db_file, target_roots, to_process, topo, ordered,
                   set_order, printed,
                   stdout, clock>>

\* the stages of compute_upgrade_plan
Stages ==
    \/ BuildStep
    \/ DetectCycles
    \/ TopoSort
    \/ TierSort
    \/ CheckRebuild

Next ==
    \/ Start
    \/ Stages

Spec == Init /\ [][Next]_vars

SpecRebuild == InitRebuild /\ [][Next]_vars

SpecTiers == InitTiers /\ [][Next]_vars

SpecNorm == InitNorm /\ [][Next]_vars

SpecCycles == InitCycles /\ [][Next]_vars

SpecMissing == InitMissing /\ [][Next]_vars

SpecInstalled == InitInstalled /\ [][Next]_vars

SpecRegistry == InitRegistry /\ [][Next]_vars

-----------------------------------------------------------------------------
(* Successive resolve commands *)

\* cmd_resolve, lines 459-466: the JSON object printed
resolve_output(pkg, p) ==
    [pkg |-> pkg, order |-> p.order, needs_rebuild |-> p.needs_rebuild,
     tiers |-> p.tiers, cycles |-> p.cycles]

\* cmd_resolve, lines 456-458: DepResolver(), the registry read once more, and
\* the call of compute_upgrade_plan up to the first iteration of build_graph_for
ResolveStart ==
    /\ pc = "start"
    /\ self' = NewResolver
    /\ Warn(DbWarnings(2))
    /\ to_process' = target_roots
    /\ pc' = "build"
    /\ UNCHANGED <<ports_dir, metafiles, db_file, target_roots, topo, ordered, plan,
                   set_order, printed, returned>>

\* cmd_resolve prints its result after the lines logged, and the process ends
PrintResolve ==
    /\ pc = "done"
    /\ stdout' = Append(stdout, JsonOut("resolve", resolve_output(target_roots[1], plan)))
    /\ printed' = stdout'
    /\ pc' = "exit"
    /\ UNCHANGED <<ports_dir, metafiles, db_file, target_roots, self, to_process, topo,
                   ordered, plan, set_order, clock, returned>>

\* the same resolve command is run again, in a new process
ResolveAgain ==
    /\ pc = "exit"
    /\ pc' = "start"
    /\ self' = NewResolver
    /\ to_process' = <<>>
    /\ topo' = <<>>
    /\ ordered' = <<>>
    /\ plan' = NoPlan
    /\ returned' = FALSE
    /\ set_order' = EmptyDict
    /\ stdout' = <<>>
    /\ UNCHANGED <<ports_dir, metafiles, db_file, target_roots, printed, clock>>

\* between two commands the dependency list of a metafile is rewritten
EditMetafile ==
    /\ pc = "exit"
    /\ \E n \in Names, deps \in DistinctSeqs(Names, 1) :
          /\ metafiles[n].deps # deps
          /\ metafiles' = [metafiles EXCEPT ![n].deps = deps]
    /\ UNCHANGED <<ports_dir, db_file, pc, target_roots, self, to_process, topo, ordered,
                   plan, set_order, printed,
                   stdout, clock, returned>>

\* One package is resolved again and again; no metafile lists more than one
\* dependency, so that the output does not depend on the iteration order of sets.
InitCli ==
    /\ ports_dir = AllPorts
    /\ \E deps \in [Names -> DistinctSeqs(Names, 1)] :
          metafiles = [n \in Names |-> RawMeta("1.0", deps[n], FALSE, <<>>, NoTier)]
    /\ db_file \in {DbFile(<<>>), Unreadable, Absent}
    /\ target_roots \in {q \in Roots : Len(q) = 1}
    /\ Idle

NextCli ==
    \/ ResolveStart
    \/ Stages
    \/ PrintResolve
    \/ ResolveAgain
    \/ EditMetafile

SpecCli == InitCli /\ [][NextCli]_vars

-----------------------------------------------------------------------------
(* Successive calls on one resolver *)

\* compute_upgrade_plan is called again on the same DepResolver, with one
\* package as its root: the object keeps its graph, its metadata and its
\* rebuild cache.  The lines of the calls before have been written out:
\* stdout holds the output of the call that starts here.
CallAgain ==
    /\ pc = "done"
    /\ stdout' = <<>>
    /\ \E q \in {s \in Roots : Len(s) = 1} :
          /\ target_roots' = q
          /\ to_process' = q
    /\ pc' = "build"
    /\ UNCHANGED <<ports_dir, metafiles, db_file, self, topo, ordered, plan, set_order,
                   printed, clock, returned>>

\* Graphs of at most MaxEdges - 1 dependency entries in which gcc.yaml may be
\* a group (without components); nothing is installed, or every package is at
\* its declared version.
InitAgain ==
    /\ ports_dir = AllPorts
    /\ target_roots \in Roots
    /\ \E w \in DepWorlds(MaxEdges - 1), g \in {"gcc", NoName} :
          metafiles = [n \in Names |->
                          RawMeta("1.0", ShapeOf(w, n).deps, n = g, <<>>, GraphTier(n))]
    /\ db_file \in InstalledDbs \cup {DbFile(<<>>)}
    /\ Idle

NextAgain ==
    \/ Next
    \/ CallAgain

SpecAgain == InitAgain /\ [][NextAgain]_vars

-----------------------------------------------------------------------------
(* The register-installed and check commands *)

\* the code point of the first character of a token of a registry key; no two
\* of these tokens start with the same character
CharCode(t) ==
    CASE t = "-"        -> 45
      [] t = "1.0"      -> 49
      [] t = "2.0"      -> 50
      [] t = "binutils" -> 98
      [] t = "gcc"      -> 103
      [] t = "libs"     -> 108

\* the order of str on registry keys, as json.dump(sort_keys=True) uses it
RECURSIVE StrLess(_, _)
StrLess(a, b) ==
    IF b = <<>> THEN FALSE
    ELSE IF a = <<>> THEN TRUE
    ELSE IF Head(a) # Head(b) THEN CharCode(Head(a)) < CharCode(Head(b))
    ELSE StrLess(Tail(a), Tail(b))

\* json.dump(data, sort_keys=True): the records in the order of their keys
RECURSIVE SortKeys(_)
SortKeys(entries) ==
    IF entries = <<>> THEN <<>>
    ELSE LET init == SortKeys(SubSeq(entries, 1, Len(entries) - 1))
             x    == entries[Len(entries)]
             k    == Cardinality({i \in 1..Len(init) : StrLess(init[i].key, x.key)})
         IN  SubSeq(init, 1, k) \o <<x>> \o SubSeq(init, k + 1, Len(init))

\* data[key] = record: an existing key keeps its place, a new one goes last
DbPut(entries, e) ==
    IF \E i \in 1..Len(entries) : entries[i].key = e.key
    THEN [i \in 1..Len(entries) |-> IF entries[i].key = e.key THEN e ELSE entries[i]]
    ELSE Append(entries, e)

\* cmd_register_installed, lines 565-569: the file written for name:ver
register(entries, name, ver) == SortKeys(DbPut(entries, RegisteredEntry(name, ver)))

\* cmd_register_installed, lines 569 and 580: the JSON list printed on success
RegisterOutput(name, ver) == <<[registered |-> Tok(name) \o <<"-">> \o Tok(ver)]>>

\* the positions of a process that has ended, by exit status 0, 2 and 3
Exits == {"exit", "exit 2", "exit 3"}

\* cmd_check, lines 532-545: the JSON object printed
cmd_check(pkg) ==
    LET db        == read_installed_db
        installed == is_installed(pkg, db)
        src_ver   == get_pkg_meta(pkg).version
        inst_ver  == installed_version(pkg, db)
    IN  [pkg               |-> pkg,
         installed         |-> installed,
         installed_version |-> inst_ver,
         source_version    |-> src_ver,
         needs_rebuild     |-> (~installed
                                \/ (src_ver # "" /\ inst_ver # "" /\ src_ver # inst_ver))]

\* the versions given to register-installed
KeyVersions == Versions \ {""}

\* register-installed --key parts[1]:parts[2], or --key parts[1]: the registry
\* is read (line 551), then the key is split and the file rewritten
RegisterInstalled ==
    /\ pc = "start"
    /\ \E parts \in {<<n>> : n \in Names} \cup {<<n, v>> : n \in Names, v \in KeyVersions},
          ts \in Stamps(clock, Len(DbWarnings(1))) :
          LET out == Logged(stdout, ts, "WARN", DbWarnings(1))
          IN  /\ clock' = LastStamp(clock, ts)
              /\ IF Len(parts) < 2
                 THEN /\ stdout' = out
                      /\ db_file' = db_file
                      /\ pc' = "exit 2"
                 ELSE IF ~db_file.readable
                 THEN /\ stdout' = out
                      /\ db_file' = db_file
                      /\ pc' = "exit 3"
                 ELSE /\ db_file' = DbFile(register(db_file.entries, parts[1], parts[2]))
                      /\ stdout' = Append(out, JsonOut("registered",
                                                       RegisterOutput(parts[1], parts[2])))
                      /\ pc' = "exit"
    /\ UNCHANGED <<ports_dir, metafiles, target_roots, self, to_process, topo, ordered,
                   plan, set_order, printed, returned>>

\* check <pkg>: the registry is read (line 532), then the JSON object printed
Check ==
    /\ pc = "start"
    /\ \E pkg \in Names, ts \in Stamps(clock, Len(DbWarnings(1))) :
          /\ clock' = LastStamp(clock, ts)
          /\ stdout' = Append(Logged(stdout, ts, "WARN", DbWarnings(1)),
                              JsonOut("check", cmd_check(pkg)))
    /\ pc' = "exit"
    /\ UNCHANGED <<ports_dir, metafiles, db_file, target_roots, self, to_process, topo,
                   ordered, plan, set_order, printed, returned>>

\* the command has ended; the next one runs in a new process
NextCommand ==
    /\ pc \in Exits
    /\ pc' = "start"
    /\ stdout' = <<>>
    /\ UNCHANGED <<ports_dir, metafiles, db_file, target_roots, self, to_process, topo,
                   ordered, plan, set_order, printed, clock, returned>>

\* the registry files before the commands: unreadable, absent, or at most MaxDb records
\* of earlier registrations in any order
PriorDbFiles ==
    {DbFile(q) :
        q \in DistinctSeqs({RegisteredEntry(n, v) : n \in Names, v \in KeyVersions}, MaxDb)}
        \cup {Unreadable, Absent}

\* Metafiles without dependencies that declare version 1.0 or 2.0; the
\* registry holds earlier registrations.
InitRegister ==
    /\ ports_dir = AllPorts
    /\ target_roots = <<>>
    /\ \E ver \in [Names -> KeyVersions] :
          metafiles = [n \in Names |-> RawMeta(ver[n], <<>>, FALSE, <<>>, NoTier)]
    /\ db_file \in PriorDbFiles
    /\ Idle

NextRegister ==
    \/ RegisterInstalled
    \/ Check
    \/ NextCommand

SpecRegister == InitRegister /\ [][NextRegister]_vars

-----------------------------------------------------------------------------
(* Properties *)

Nodes == DOMAIN self.graph

\* build_graph_for has returned
GraphBuilt ==
    \/ pc = "build" /\ to_process = <<>>
    \/ pc \in {"topo", "tier", "rebuild", "done"}

CyclesDetected == pc \in {"topo", "tier", "rebuild", "done"}
TopoSorted == pc \in {"tier", "rebuild", "done"}
TierSorted == pc \in {"rebuild", "done"}
Done == pc = "done"

\* the nodes reachable from the nodes of S along the edges of g
RECURSIVE ReachableFrom(_, _)
ReachableFrom(g, S) ==
    LET T == S \cup UNION {g[x] : x \in S \cap DOMAIN g}
    IN  IF T = S THEN S ELSE ReachableFrom(g, T)

OnCycle(g, n) == n \in ReachableFrom(g, g[n])
HasCycle(g) == \E n \in DOMAIN g : OnCycle(g, n)

\* q lists every element of S exactly once and nothing else
ListsExactly(q, S) == Range(q) = S /\ Len(q) = Cardinality(S)

\* C1: in an acyclic graph, topo_sort places every dependency at an earlier
\* index than the packages that require it.
C1_AcyclicPrecedence ==
    (TopoSorted /\ ~HasCycle(self.graph)) =>
        \A a \in Nodes : \A b \in self.graph[a] :
            IndexOf(topo, b) # 0 /\ IndexOf(topo, b) < IndexOf(topo, a)

\* C2: after build_graph_for the graph holds the transitive closure of the
\* roots: every dependency declared by the record of a node is a node and an
\* edge of that node.
C2_TransitiveClosure ==
    GraphBuilt =>
        \A n \in Nodes : \A d \in Range(get_pkg_meta(n).dependencies) :
            d \in Nodes /\ d \in self.graph[n]

\* C3: the list of topo_sort, and the order of the plan got from it by
\* tier_sort, contain every node of the graph exactly once and nothing else,
\* with or without cycles.
C3_OrderComplete ==
    /\ TopoSorted => ListsExactly(topo, Nodes)
    /\ TierSorted => ListsExactly(ordered, Nodes)
    /\ Done => ListsExactly(plan.order, Nodes)

\* a plan was returned for a graph of three nodes with a self-loop and a longer cycle
C3_Witness ==
    /\ Done
    /\ Cardinality(Nodes) = 3
    /\ \E a \in Nodes : a \in self.graph[a]
    /\ \E a \in Nodes : \E b \in self.graph[a] \ {a} : a \in ReachableFrom(self.graph, {b})
    /\ ordered # topo

\* C6: no name whose record is a group is a node of the graph or a member of
\* the final order.
C6_NoGroupInOrder ==
    \A n \in Names :
        get_pkg_meta(n).is_group =>
            /\ n \notin Nodes
            /\ Done => n \notin Range(plan.order)

\* the graph is exactly the cycle a -> b -> c -> a
IsTriangle(g, a, b, c) ==
    /\ Cardinality({a, b, c}) = 3
    /\ DOMAIN g = {a, b, c}
    /\ g[a] = {b} /\ g[b] = {c} /\ g[c] = {a}

\* C7: detect_cycles returns no cycle exactly when the graph has no directed
\* cycle, and on the graph a -> b -> c -> a it returns a cycle whose node set
\* is {a, b, c}.
C7_CyclesIffCyclic ==
    CyclesDetected =>
        /\ (self.cycles = <<>>) <=> ~HasCycle(self.graph)
        /\ plan.cycles \in {<<>>, self.cycles}
        /\ \A a, b, c \in Nodes :
              IsTriangle(self.graph, a, b, c) =>
                  \E i \in 1..Len(self.cycles) : Range(self.cycles[i]) = {a, b, c}

\* cycles were searched in the graph a -> b -> c -> a
C7_Witness ==
    /\ CyclesDetected
    /\ \E a, b, c \in Nodes : IsTriangle(self.graph, a, b, c)
    /\ self.cycles # <<>>

\* C8: a package that lists itself as a dependency is reported as the cycle
\* [a, a] and is a member of the final order exactly once.
C8_SelfLoop ==
    \A a \in Nodes :
        a \in self.graph[a] =>
            /\ CyclesDetected => \E i \in 1..Len(self.cycles) : self.cycles[i] = <<a, a>>
            /\ Done => Cardinality({i \in 1..Len(plan.order) : plan.order[i] = a}) = 1

\* a plan was returned for a graph in which a package requires itself
C8_Witness ==
    /\ Done
    /\ \E a \in Nodes : a \in self.graph[a] /\ a \in Range(plan.order)

\* the registry lookup by bare name: the key is the name, or name-<version>,
\* or starts with name/, or the record's name field is the name
RegistryMatch(e, name) ==
    \/ e.key = Tok(name)
    \/ \E v \in Versions \ {""} : e.key = Tok(name) \o <<"-", v>>
    \/ StartsWith(e.key, Tok(name) \o <<"/">>)
    \/ e.name = name

InRegistry(name) ==
    \E i \in 1..Len(self.installed_db) : RegistryMatch(self.installed_db[i], name)

\* the version of the first record of the package in the registry
RegistryVersion(name) ==
    LET hits == {i \in 1..Len(self.installed_db) :
                    RegistryMatch(self.installed_db[i], name)}
    IN  self.installed_db[CHOOSE i \in hits : \A j \in hits : i <= j].version

DeclaredVersion(n) == self.meta[n].version

NeedsRebuild == Range(plan.needs_rebuild)

\* C4: needs_rebuild contains every node that is absent from the registry,
\* every node whose non-empty declared version differs from its non-empty
\* installed version, and every node that requires a member of needs_rebuild.
C4_RebuildPropagation ==
    Done =>
        \A n \in Nodes :
            /\ ~InRegistry(n) => n \in NeedsRebuild
            /\ ( /\ InRegistry(n)
                 /\ DeclaredVersion(n) # ""
                 /\ RegistryVersion(n) # ""
                 /\ DeclaredVersion(n) # RegistryVersion(n) ) => n \in NeedsRebuild
            /\ (self.graph[n] \cap NeedsRebuild # {}) => n \in NeedsRebuild

\* C5: a node that is in the registry, whose declared and installed versions
\* are equal or one of them empty, that is on no cycle and requires no member
\* of needs_rebuild, is not in needs_rebuild.
C5_NoFalsePositive ==
    Done =>
        \A n \in Nodes :
            ( /\ InRegistry(n)
              /\ \/ DeclaredVersion(n) = RegistryVersion(n)
                 \/ DeclaredVersion(n) = ""
                 \/ RegistryVersion(n) = ""
              /\ ~OnCycle(self.graph, n)
              /\ self.graph[n] \cap NeedsRebuild = {} ) => n \notin NeedsRebuild

\* the rank of a tier: core=0, system=1, libs=2, gui=3, desktop=4, optional=5,
\* anything else 6
TierRank(t) ==
    CASE t = "core"     -> 0
      [] t = "system"   -> 1
      [] t = "libs"     -> 2
      [] t = "gui"      -> 3
      [] t = "desktop"  -> 4
      [] t = "optional" -> 5
      [] OTHER          -> 6

RankOf(n) == TierRank(get_pkg_meta(n).tier)

\* C10: tier_sort returns a permutation of its argument, in non-decreasing
\* tier rank, where nodes of equal rank keep the order they had in the argument.
C10_TierSortStable ==
    TierSorted =>
        /\ IsDistinct(topo)
        /\ Len(ordered) = Len(topo) /\ Range(ordered) = Range(topo)
        /\ \A i, j \in 1..Len(ordered) :
              i < j =>
                  /\ RankOf(ordered[i]) <= RankOf(ordered[j])
                  /\ RankOf(ordered[i]) = RankOf(ordered[j]) =>
                         IndexOf(topo, ordered[i]) < IndexOf(topo, ordered[j])

\* tier_sort moved a node in front of two nodes of one rank that it kept in
\* their order, one of them with an unrecognised tier string
C10_Witness ==
    /\ TierSorted
    /\ Len(ordered) = 3
    /\ ordered # topo
    /\ RankOf(ordered[2]) = RankOf(ordered[3])
    /\ RankOf(ordered[1]) < RankOf(ordered[2])
    /\ \E n \in Range(ordered) : metafiles[n].tier = "bogus"

\* the JSON value at the end of what a command printed
JsonPrinted(out) == out[Len(out)].value

\* C9: without a cache-clear in between (the command line has none), a
\* resolve of the package prints the JSON object that the resolve before it
\* printed, even if the metafiles changed (the warning lines before the
\* object carry the time of the run and are left out of the comparison).
C9_CacheRoundTrip ==
    [][printed # NoOutput => JsonPrinted(printed') = JsonPrinted(printed)]_vars

\* the separators at which a specifier is cut
Separators == {" ", ">=", "<=", "==", "=", "(", "[", "{", ";", ",", "|"}

\* the bare name of a specifier: the specifier cut at its first separator
normalize(s) ==
    LET t    == Tok(s)
        cuts == {i \in 1..Len(t) : t[i] \in Separators}
        bare == IF cuts = {} THEN t
                ELSE SubSeq(t, 1, (CHOOSE i \in cuts : \A j \in cuts : i <= j) - 1)
    IN  IF \E n \in Names \cup Specifiers : Tok(n) = bare
        THEN CHOOSE n \in Names \cup Specifiers : Tok(n) = bare
        ELSE ""

\* C11: every node name of the graph is a bare package name (normalize(N) = N),
\* and a dependency declared by a specifier is the edge to the node of its
\* bare name.
C11_NormalizedNodes ==
    /\ \A n \in Nodes : normalize(n) = n
    /\ GraphBuilt =>
          \A i \in 1..Len(target_roots) :
              \A d \in Range(get_pkg_meta(target_roots[i]).dependencies) :
                  normalize(d) \in self.graph[target_roots[i]]

\* some metafile of the ports tree is found for the name
HasSource(n) == \E i \in 1..Len(ports_dir) : StartsWith(Tok(ports_dir[i]), Tok(n))

\* C12: a name without metadata source gets the record with empty version, no
\* dependencies, tier unknown and is_group false; it is a node without edges
\* and a member of the order of the plan.
C12_MissingMetadata ==
    /\ \A n \in Names : ~HasSource(n) => get_pkg_meta(n) = NoMeta
    /\ \A n \in Nodes :
          ~HasSource(n) =>
              /\ self.meta[n] = NoMeta
              /\ self.graph[n] = {}
              /\ Done => Cardinality({i \in 1..Len(plan.order) : plan.order[i] = n}) = 1
    /\ \A i \in 1..Len(target_roots) :
          (GraphBuilt /\ ~HasSource(target_roots[i])) => target_roots[i] \in Nodes

\* a plan was returned whose order holds a package without metafile that
\* another package requires, while another metafile declares dependencies
C12_Witness ==
    /\ Done
    /\ \E n \in Nodes :
          /\ ~HasSource(n)
          /\ metafiles[n].deps # <<>>
          /\ n \in Range(plan.order)
          /\ \E m \in Nodes \ {n} : n \in self.graph[m]

\* C13: a registry that cannot be read is the empty registry, and with an
\* empty registry needs_rebuild is the whole node set of the order.
C13_UnreadableRegistry ==
    /\ ~db_file.readable => read_installed_db = <<>>
    /\ (pc # "start" /\ ~db_file.readable) => self.installed_db = <<>>
    /\ (Done /\ self.installed_db = <<>>) =>
          /\ Range(plan.needs_rebuild) = Range(plan.order)
          /\ Range(plan.order) = Nodes
          /\ IsDistinct(plan.needs_rebuild)

\* a plan was returned with an unreadable registry, for a graph with an edge
\* and a package that declares no version
C13_Witness ==
    /\ Done
    /\ db_file = Unreadable
    /\ stdout # <<>>
    /\ Len(plan.needs_rebuild) = 3
    /\ \E n \in Nodes : self.graph[n] # {}
    /\ \E n \in Nodes : self.meta[n].version = ""

\* C14: the order and the cycles of the plan do not depend on the order in
\* which the sets of dependencies are iterated: every iteration order gives the
\* order and the cycles this run returned.
C14_Deterministic ==
    Done =>
        \A ord \in SetOrders(self.graph) :
            /\ tier_sort(self, topo_sort(self, ord)) = plan.order
            /\ detect_cycles(self, ord).cycles = plan.cycles

\* C15: is_installed(name, db) is true, and installed_version(name, db) is the
\* version of that record, exactly when db has a record whose key is name, or
\* name-<version>, or starts with name/, or whose name field is name; a record
\* of another package whose name starts with name- is no match.
C15_RegistryLookup ==
    Done =>
        \A n \in Names :
            /\ is_installed(n, self.installed_db) <=> InRegistry(n)
            /\ InRegistry(n) => installed_version(n, self.installed_db) = RegistryVersion(n)
            /\ ~InRegistry(n) => installed_version(n, self.installed_db) = ""

\* C16: build_graph_for terminates: an iteration of its while loop never
\* leaves the resolver and the worklist as it found them (the loop, which
\* reads nothing else, would repeat that iteration for ever).
C16_BuildTerminates ==
    (pc = "build" /\ to_process # <<>>) =>
        LET st == build_graph_step(self, to_process)
        IN  st.r # self \/ st.tp # to_process

\* the elementary cycles of g, as the sequences of their nodes
ElementaryCycles(g) ==
    {q \in DistinctSeqs(DOMAIN g, Cardinality(DOMAIN g)) \ {<<>>} :
        \A i \in 1..Len(q) : q[(i % Len(q)) + 1] \in g[q[i]]}

\* p and q are the same cycle, started at different nodes
SameCycle(p, q) ==
    /\ Len(p) = Len(q)
    /\ \E k \in 0..(Len(q) - 1) : \A i \in 1..Len(q) : p[i] = q[((i + k - 1) % Len(q)) + 1]

\* detect_cycles returned a cycle with the nodes of q
Reported(q) == \E i \in 1..Len(self.cycles) : Range(self.cycles[i]) = Range(q)

\* C17: for every elementary cycle of the graph, detect_cycles returns a cycle
\* with the same node set, also when two cycles share nodes or an edge.
C17_AllCyclesFound ==
    CyclesDetected => \A q \in ElementaryCycles(self.graph) : Reported(q)

\* the edges of the cycle q
CycleEdges(q) == {<<q[i], q[(i % Len(q)) + 1]>> : i \in 1..Len(q)}

\* C17 as amended: for every elementary cycle that shares no edge with another
\* elementary cycle, detect_cycles returns a cycle with the same node set, also
\* when it shares nodes with other cycles.
C17_EdgeDisjointCyclesFound ==
    CyclesDetected =>
        LET all == ElementaryCycles(self.graph)
        IN  \A q \in all :
                (\A p \in all : SameCycle(p, q) \/ CycleEdges(p) \cap CycleEdges(q) = {})
                    => Reported(q)

\* cycles were searched in a graph with two cycles of two nodes that share a
\* node and no edge, and both were returned
C17_Witness ==
    /\ CyclesDetected
    /\ \E a \in Nodes : \E b \in Nodes \ {a} : \E c \in Nodes \ {a, b} :
          /\ self.graph[a] = {b, c}
          /\ self.graph[b] = {a}
          /\ self.graph[c] = {a}
          /\ Reported(<<a, b>>)
          /\ Reported(<<a, c>>)
    /\ Len(self.cycles) = 2


\* c is a closed loop of the graph g: it ends where it starts, each step of it
\* is an edge, and no node but the first/last occurs twice
ClosedLoop(g, c) ==
    /\ Len(c) >= 2
    /\ c[1] = c[Len(c)]
    /\ \A i \in 1..(Len(c) - 1) : c[i] \in DOMAIN g /\ c[i + 1] \in g[c[i]]
    /\ \A i, j \in 1..(Len(c) - 1) : i # j => c[i] # c[j]

\* C18: every cycle returned by detect_cycles is a closed loop of the graph:
\* first element = last element, consecutive elements are edges, and no other
\* node is repeated.
C18_CyclesAreLoops ==
    \A i \in 1..Len(self.cycles) : ClosedLoop(self.graph, self.cycles[i])

\* cycles were searched and a cycle of two nodes was returned that the search
\* reached from the first node of the graph, which is not on it
C18_Witness ==
    /\ CyclesDetected
    /\ \E i \in 1..Len(self.cycles) :
          /\ Len(self.cycles[i]) = 3
          /\ Head(self.graph_keys) \notin Range(self.cycles[i])
          /\ self.graph[Head(self.graph_keys)] \cap Range(self.cycles[i]) # {}


\* every node is installed at exactly the version its metafile declares
AllInstalledAsDeclared ==
    \A n \in Nodes :
        /\ is_installed(n, self.installed_db)
        /\ n \in DOMAIN self.meta
        /\ installed_version(n, self.installed_db) = self.meta[n].version

\* C19: on a graph with cycles the rebuild analysis returns, with a verdict for
\* every node, and every package on a dependency cycle is in needs_rebuild,
\* also when every package is installed at its declared version, in whatever
\* order nodes and dependencies are evaluated.
C19_CycleForcesRebuild ==
    /\ (pc = "rebuild" /\ HasCycle(self.graph)) =>
           DOMAIN check_rebuild_all(self, set_order, ordered).needs_rebuild_cache = Nodes
    /\ Done => \A n \in Nodes : OnCycle(self.graph, n) => n \in NeedsRebuild

\* a plan was returned for a graph with a cycle of two or more packages, all
\* installed at their declared versions, and one package off the cycles
C19_Witness ==
    /\ Done
    /\ AllInstalledAsDeclared
    /\ \E a \in Nodes : \E b \in Nodes \ {a} :
          /\ b \in self.graph[a]
          /\ a \in ReachableFrom(self.graph, {b})
          /\ {a, b} \subseteq NeedsRebuild
    /\ \E c \in Nodes : ~OnCycle(self.graph, c)


\* the planning run over the same roots and metadata with nothing installed
EmptyRegistryRun == compute_upgrade_plan(<<>>, target_roots, set_order)

\* C20: the registry influences only needs_rebuild: the run builds the graph
\* (nodes and edges), reports the set of cycles and returns the tiers and the
\* order that a run over the same roots and metadata builds, reports and
\* returns with an empty registry, whatever the registry holds.
C20_RegistryOnlyRebuild ==
    Done =>
        LET run == EmptyRegistryRun
        IN  /\ self.graph = run.r.graph
            /\ Range(plan.cycles) = Range(run.plan.cycles)
            /\ plan.tiers = run.plan.tiers
            /\ plan.order = run.plan.order

\* a plan was returned over a registry that holds a dependency of a package,
\* for a graph with a cycle, and the registry changed needs_rebuild
C20_Witness ==
    /\ Done
    /\ \E n \in Nodes : \E d \in self.graph[n] : is_installed(d, self.installed_db)
    /\ plan.cycles # <<>>
    /\ plan.needs_rebuild # EmptyRegistryRun.plan.needs_rebuild


\* C21: edges never dangle: while build_graph_for runs and after it returns,
\* every name in some graph[N] is a key of the graph and has an entry in the
\* metadata mapping.
C21_NoDanglingEdge ==
    \A n \in Nodes :
        /\ self.graph[n] \subseteq DOMAIN self.graph
        /\ self.graph[n] \subseteq DOMAIN self.meta

\* build_graph_for is running, with names still queued, and the graph has an
\* edge to a name that is not a root
C21_Witness ==
    /\ pc = "build"
    /\ to_process # <<>>
    /\ \E n \in Nodes : \E d \in self.graph[n] :
          d # n /\ d \notin Range(target_roots)


\* C22: in every plan returned by compute_upgrade_plan, also by a later call
\* on the same resolver with other roots, needs_rebuild is a subset of the
\* names in order and tiers has an entry for every name in order.
C22_PlanConsistent ==
    returned =>
        /\ Range(plan.needs_rebuild) \subseteq Range(plan.order)
        /\ Range(plan.order) \subseteq DOMAIN plan.tiers

\* a later call returned a plan: the graph holds a node that the roots of this
\* call do not reach, the plan marks it, and another node is not marked
C22_Witness ==
    /\ Done
    /\ \E n \in Nodes :
          /\ n \notin ReachableFrom(self.graph, Range(target_roots))
          /\ n \in Range(plan.needs_rebuild)
    /\ Range(plan.needs_rebuild) # Range(plan.order)


\* register-installed has printed that it registered n at version v
Registered(n, v) ==
    /\ stdout # <<>>
    /\ stdout[Len(stdout)].kind = "registered"
    /\ stdout[Len(stdout)].value = RegisterOutput(n, v)

\* C23: after register-installed --key name:V has succeeded, on a readable
\* registry with any prior contents, installed_version(name) is V, and check
\* reports a package whose metafile declares V as not needing a rebuild.
C23_RegisterRoundTrip ==
    \A n \in Names, v \in KeyVersions :
        (pc = "exit" /\ Registered(n, v)) =>
            /\ installed_version(n, read_installed_db) = v
            /\ get_pkg_meta(n).version = v => ~cmd_check(n).needs_rebuild

=============================================================================
